---- MODULE Spec2Model ----
(***************************************************************************)
(* The transaction state-transition engine of core/state_transition.go:    *)
(* StateTransition.TransitionDb and its helpers (preCheck, buyGas, useGas, *)
(* IntrinsicGas, refundGas, gasUsed), run against a GasPool, a world-state *)
(* view, an Executor (evm.Create / evm.Call), the private payload          *)
(* retrieval service and the privacy metadata handler.                     *)
(***************************************************************************)
EXTENDS Integers, Sequences, FiniteSets, TLC

VARIABLES
    chain,      \* st.evm.ChainConfig(): isQuorum, homestead, istanbul, privacyEnhancements
    gp,         \* *st.gp, the block's GasPool
    balance,    \* st.state balances, by address
    nonce,      \* st.state nonce of msg.From()
    refund,     \* st.state.GetRefund(), the state's refund counter
    msg,        \* st.msg
    st,         \* the StateTransition's own fields: gas, initialGas
    pc,         \* position inside TransitionDb
    isPrivate,  \* local isPrivate of TransitionDb
    data,       \* local data of TransitionDb: [present, bytes]; present = FALSE is a nil slice
    pmh,        \* the privacy metadata handler: snapshot, hasPrivatePayload
    exec,       \* locals leftoverGas and vmerr of TransitionDb
    result,     \* the values TransitionDb returned: usedGas, failed, err
    pre,        \* the world state and the pool when the transition started
    obs,        \* what the running transition has done so far (history of calls)
    block       \* what the sequence of transitions has done to the pool so far

vars == <<chain, gp, balance, nonce, refund, msg, st, pc, isPrivate, data, pmh,
          exec, result, pre, obs, block>>

----------------------------------------------------------------------------
\* Bounds of the model.

\* longest message data and longest retrieved plaintext, in bytes
MaxDataLen == 1
\* transitions applied one after another against one GasPool
MaxTx == 2

----------------------------------------------------------------------------
\* Program constants.

\* math.MaxUint64. uint64 arithmetic is modelled 30 bits wide: a word holds
\* 0 .. MaxUint64, and additions and subtractions wrap modulo Word.
MaxUint64 == 1073741823
Word == MaxUint64 + 1

TxGas == 21000
TxGasContractCreation == 53000
TxDataZeroGas == 4
TxDataNonZeroGasFrontier == 68
TxDataNonZeroGasEIP2028 == 16

ErrNil == "nil"
ErrNonceTooHigh == "nonce too high"
ErrNonceTooLow == "nonce too low"
errInsufficientBalanceForGas == "insufficient balance to pay for gas"
ErrGasLimitReached == "gas limit reached"
ErrOutOfGas == "out of gas"
ErrInsufficientBalance == "insufficient balance for transfer"
ErrExecution == "execution reverted"
ErrPrivacy == "privacy metadata mismatch"

Sender == "sender"
Recipient == "recipient"
Coinbase == "coinbase"
Addresses == {Sender, Recipient, Coinbase}

----------------------------------------------------------------------------
\* Inputs.

RECURSIVE SeqsUpTo(_, _)
SeqsUpTo(S, n) ==
    IF n = 0 THEN {<<>>}
    ELSE LET shorter == SeqsUpTo(S, n - 1)
         IN shorter \cup {Append(s, b) : s \in shorter, b \in S}

\* a byte is zero or not: 0 and 1 stand for the two classes
Bytes == {0, 1}
DataValues == SeqsUpTo(Bytes, MaxDataLen)

GasLimits == {20000, 21000, 53100}
GasPrices == {1, 2}
Values == {0, 7}
Nonces == {0, 1}
SenderBalances == {100, 21000, 120000}
GasPoolAmounts == {20000, 60000}
RefundCounters == {0, 100, 30000}

\* Message and PrivateMessage: to = FALSE is a nil recipient (contract
\* creation); private = TRUE is a message implementing PrivateMessage,
\* isPrivate what its IsPrivate() returns.
MessagesOf(gasLimits, gasPrices, values, nonces) ==
    { m \in [gas : gasLimits, gasPrice : gasPrices, value : values, data : DataValues,
             nonce : nonces, checkNonce : BOOLEAN, to : BOOLEAN,
             private : BOOLEAN, isPrivate : BOOLEAN] :
        m.isPrivate => m.private }

Messages == MessagesOf(GasLimits, GasPrices, Values, Nonces)

NoMessage ==
    [gas |-> 0, gasPrice |-> 0, value |-> 0, data |-> <<>>, nonce |-> 0,
     checkNonce |-> FALSE, to |-> FALSE, private |-> FALSE, isPrivate |-> FALSE]

\* fork flags come in the order of the forks; private transactions and
\* privacy enhancements are Quorum features
ChainConfigs ==
    { c \in [isQuorum : BOOLEAN, homestead : BOOLEAN, istanbul : BOOLEAN,
             privacyEnhancements : BOOLEAN] :
        /\ c.istanbul => c.homestead
        /\ c.privacyEnhancements => c.isQuorum }

NilData == [present |-> FALSE, bytes |-> <<>>]
Slice(b) == [present |-> TRUE, bytes |-> b]

----------------------------------------------------------------------------
\* The state the engine's methods read and write, as one value: the pool,
\* the world-state view and the StateTransition's gas fields.

Cur ==
    [gp |-> gp, balance |-> balance, nonce |-> nonce, refund |-> refund,
     gas |-> st.gas, initialGas |-> st.initialGas]

Install(c) ==
    /\ gp' = c.gp
    /\ balance' = c.balance
    /\ nonce' = c.nonce
    /\ refund' = c.refund
    /\ st' = [gas |-> c.gas, initialGas |-> c.initialGas]

\* the world-state view alone: what Snapshot saves and RevertToSnapshot restores
StateOf(c) == [balance |-> c.balance, nonce |-> c.nonce, refund |-> c.refund]

----------------------------------------------------------------------------
\* GasPool.

SubGas(pool, amount) ==
    IF pool < amount
    THEN [gp |-> pool, err |-> ErrGasLimitReached]
    ELSE [gp |-> pool - amount, err |-> ErrNil]

AddGas(pool, amount) == pool + amount

----------------------------------------------------------------------------
\* World-state view.

AddBalance(c, addr, amount) == [c EXCEPT !.balance[addr] = @ + amount]
SubBalance(c, addr, amount) == [c EXCEPT !.balance[addr] = @ - amount]
SetNonce(c, n) == [c EXCEPT !.nonce = n % Word]

----------------------------------------------------------------------------
\* IntrinsicGas.

RECURSIVE NonZeroBytes(_)
NonZeroBytes(bytes) ==
    IF bytes = <<>> THEN 0
    ELSE (IF Head(bytes) # 0 THEN 1 ELSE 0) + NonZeroBytes(Tail(bytes))

\* the sums taken without looking at the headroom
IntrinsicGasUnguarded(nz, length, contractCreation, isHomestead, isEIP2028) ==
    LET base == IF contractCreation /\ isHomestead THEN TxGasContractCreation ELSE TxGas
        nonZeroGas == IF isEIP2028 THEN TxDataNonZeroGasEIP2028
                      ELSE TxDataNonZeroGasFrontier
        withNonZero == (base + nz * nonZeroGas) % Word
        z == length - nz
    IN  IF length = 0 THEN [gas |-> base, err |-> ErrNil]
        ELSE [gas |-> (withNonZero + z * TxDataZeroGas) % Word, err |-> ErrNil]

\* IntrinsicGas after its loop over the data: nz is the number of non-zero
\* bytes it counted, length is len(data)
IntrinsicGasOfCounts(nz, length, contractCreation, isHomestead, isEIP2028) ==
    LET base == IF contractCreation /\ isHomestead THEN TxGasContractCreation ELSE TxGas
        nonZeroGas == IF isEIP2028 THEN TxDataNonZeroGasEIP2028
                      ELSE TxDataNonZeroGasFrontier
        withNonZero == (base + nz * nonZeroGas) % Word
        z == length - nz
    IN  IF length = 0 THEN [gas |-> base, err |-> ErrNil]
        ELSE IF (MaxUint64 - base) \div nonZeroGas < nz
             THEN [gas |-> 0, err |-> ErrOutOfGas]
        ELSE IF (MaxUint64 - withNonZero) \div TxDataZeroGas < z
             THEN [gas |-> 0, err |-> ErrOutOfGas]
        ELSE [gas |-> (withNonZero + z * TxDataZeroGas) % Word, err |-> ErrNil]

IntrinsicGas(bytes, contractCreation, isHomestead, isEIP2028) ==
    IntrinsicGasOfCounts(NonZeroBytes(bytes), Len(bytes), contractCreation, isHomestead,
                         isEIP2028)

----------------------------------------------------------------------------
\* StateTransition methods.

\* the whole gas limit counted as used
gasUsedIsInitialGas(c) == c.initialGas

gasUsed(c) == (c.initialGas - c.gas) % Word

\* useGas that checks the amount but does not take it
useGasNoCharge(c, amount) ==
    IF c.gas < amount
    THEN [c |-> c, err |-> ErrOutOfGas]
    ELSE [c |-> c, err |-> ErrNil]

useGas(c, amount) ==
    IF c.gas < amount
    THEN [c |-> c, err |-> ErrOutOfGas]
    ELSE [c |-> [c EXCEPT !.gas = @ - amount], err |-> ErrNil]

\* buyGas that takes the gas from the pool without asking it
buyGasUnchecked(c, m) ==
    LET mgval == m.gas * m.gasPrice
    IN  IF c.balance[Sender] < mgval
        THEN [c |-> c, err |-> errInsufficientBalanceForGas]
        ELSE [c |-> SubBalance([c EXCEPT !.gp = (@ - m.gas) % Word,
                                         !.gas = (@ + m.gas) % Word,
                                         !.initialGas = m.gas],
                               Sender, mgval),
              err |-> ErrNil]

\* buyGas that debits the sender before it reserves the gas
buyGasDebitFirst(c, m) ==
    LET mgval == m.gas * m.gasPrice
        sub == SubGas(c.gp, m.gas)
        debited == SubBalance(c, Sender, mgval)
    IN  IF c.balance[Sender] < mgval
        THEN [c |-> c, err |-> errInsufficientBalanceForGas]
        ELSE IF sub.err # ErrNil
        THEN [c |-> debited, err |-> sub.err]
        ELSE [c |-> [debited EXCEPT !.gp = sub.gp,
                                    !.gas = (@ + m.gas) % Word,
                                    !.initialGas = m.gas],
              err |-> ErrNil]

\* buyGas that asks the pool for the gas and leaves it there
buyGasPoolUntouched(c, m) ==
    LET mgval == m.gas * m.gasPrice
        sub == SubGas(c.gp, m.gas)
    IN  IF c.balance[Sender] < mgval
        THEN [c |-> c, err |-> errInsufficientBalanceForGas]
        ELSE IF sub.err # ErrNil
        THEN [c |-> c, err |-> sub.err]
        ELSE [c |-> SubBalance([c EXCEPT !.gas = (@ + m.gas) % Word,
                                         !.initialGas = m.gas],
                               Sender, mgval),
              err |-> ErrNil]

buyGas(c, m) ==
    LET mgval == m.gas * m.gasPrice
        sub == SubGas(c.gp, m.gas)
    IN  IF c.balance[Sender] < mgval
        THEN [c |-> c, err |-> errInsufficientBalanceForGas]
        ELSE IF sub.err # ErrNil
        THEN [c |-> c, err |-> sub.err]
        ELSE [c |-> SubBalance([c EXCEPT !.gp = sub.gp,
                                         !.gas = (@ + m.gas) % Word,
                                         !.initialGas = m.gas],
                               Sender, mgval),
              err |-> ErrNil]

\* preCheck with the two nonce errors exchanged
preCheckSwapped(c, m) ==
    IF m.checkNonce /\ c.nonce < m.nonce
    THEN [c |-> c, err |-> ErrNonceTooLow]
    ELSE IF m.checkNonce /\ c.nonce > m.nonce
    THEN [c |-> c, err |-> ErrNonceTooHigh]
    ELSE buyGas(c, m)

preCheck(c, m) ==
    IF m.checkNonce /\ c.nonce < m.nonce
    THEN [c |-> c, err |-> ErrNonceTooHigh]
    ELSE IF m.checkNonce /\ c.nonce > m.nonce
    THEN [c |-> c, err |-> ErrNonceTooLow]
    ELSE buyGas(c, m)

\* the refund without the cap of half the gas used
refundAmountUncapped(c) == c.refund

\* the refund capped by the gas used, not by half of it
refundAmountNoHalving(c) ==
    IF gasUsed(c) > c.refund THEN c.refund ELSE gasUsed(c)

\* the amount refundGas adds to gas
refundAmount(c) ==
    LET half == gasUsed(c) \div 2
    IN  IF half > c.refund THEN c.refund ELSE half

\* refundGas that returns the remaining gas to the sender at price 1
refundGasUnpriced(c, m) ==
    LET gas == (c.gas + refundAmount(c)) % Word
    IN  [AddBalance(c, Sender, gas) EXCEPT !.gas = gas, !.gp = AddGas(c.gp, gas)]

refundGas(c, m) ==
    LET gas == (c.gas + refundAmount(c)) % Word
        remaining == gas * m.gasPrice
    IN  [AddBalance(c, Sender, remaining) EXCEPT !.gas = gas, !.gp = AddGas(c.gp, gas)]

\* the proposer paid for the whole gas limit
payCoinbaseGasLimit(c, m) == AddBalance(c, Coinbase, c.initialGas * m.gasPrice)

\* st.state.AddBalance(st.evm.Coinbase, gasUsed * gasPrice)
payCoinbase(c, m) == AddBalance(c, Coinbase, gasUsed(c) * m.gasPrice)

----------------------------------------------------------------------------
\* Executor: evm.Create and evm.Call. An outcome is the state it leaves, the
\* leftover gas and the vm error. The value transfer fails with
\* ErrInsufficientBalance when the sender cannot afford it, and then nothing
\* ran; otherwise the execution returns any part of the gas it was given,
\* succeeds (value moved, refund counter possibly raised) or fails with
\* another vm error (its changes undone). Create bumps the sender's nonce.

Leftovers(gasGiven) == {0, gasGiven \div 2, gasGiven}

Execute(c, contractCreation, gasGiven, value) ==
    LET started == IF contractCreation THEN SetNonce(c, c.nonce + 1) ELSE c
        moved == AddBalance(SubBalance(started, Sender, value), Recipient, value)
    IN  IF c.balance[Sender] < value
        THEN {[c |-> c, leftoverGas |-> gasGiven, vmerr |-> ErrInsufficientBalance]}
        ELSE {[c |-> [moved EXCEPT !.refund = r], leftoverGas |-> l, vmerr |-> ErrNil] :
                  l \in Leftovers(gasGiven), r \in {x \in RefundCounters : x >= c.refund}}
             \cup
             {[c |-> started, leftoverGas |-> l, vmerr |-> ErrExecution] :
                  l \in Leftovers(gasGiven)}

----------------------------------------------------------------------------
\* Payload retrieval service, private.P.Receive: an error, no payload (nil),
\* or a plaintext, which may be empty.

ReceiveOutcomes ==
    {[err |-> TRUE, data |-> NilData]}
    \cup {[err |-> FALSE, data |-> d] : d \in {NilData} \cup {Slice(b) : b \in DataValues}}

----------------------------------------------------------------------------
\* Privacy metadata handler.

NoSnapshot == [balance |-> [a \in Addresses |-> 0], nonce |-> 0, refund |-> 0]

newPMH == [snapshot |-> NoSnapshot, hasPrivatePayload |-> FALSE]

\* pmh.prepare(): (ok, err). It can refuse only a private payload on a chain
\* with privacy enhancements.
prepare(h, cfg) ==
    {[ok |-> TRUE, err |-> ErrNil]}
    \cup (IF h.hasPrivatePayload /\ cfg.privacyEnhancements
          THEN {[ok |-> FALSE, err |-> e] : e \in {ErrNil, ErrPrivacy}}
          ELSE {})

mustVerify(h, cfg) == h.hasPrivatePayload /\ cfg.privacyEnhancements

\* a revert that restores nothing
RevertToNothing(c, snapshot) == c

\* st.RevertToSnapshot(snapshot)
RevertToSnapshot(c, snapshot) ==
    [c EXCEPT !.balance = snapshot.balance, !.nonce = snapshot.nonce,
              !.refund = snapshot.refund]

\* pmh.verify(vmerr): (exitEarly, err, state). On a mismatch it reverts to
\* the snapshot through the StateTransition and asks to exit early.
verify(h, c) ==
    {[exitEarly |-> FALSE, err |-> ErrNil, c |-> c, reverts |-> 0],
     [exitEarly |-> TRUE, err |-> ErrPrivacy, c |-> RevertToSnapshot(c, h.snapshot),
      reverts |-> 1]}

----------------------------------------------------------------------------
\* Bookkeeping of what a transition did.

NoResult == [returned |-> FALSE, usedGas |-> 0, failed |-> FALSE, err |-> ErrNil]

NewObs ==
    [preCheckErr |-> ErrNil,    \* what preCheck returned
     intrinsic |-> -1,          \* the intrinsic gas charged by useGas, -1 before
     execCalls |-> 0,           \* calls of evm.Create and evm.Call
     revertCalls |-> 0,         \* calls of RevertToSnapshot
     nonceIncs |-> 0,           \* SetNonce(nonce+1) calls made by TransitionDb itself
     execNonce |-> -1,          \* the sender's nonce when the Executor was called, -1 before
     received |-> FALSE,        \* private.P.Receive was called
     receiveErr |-> FALSE,      \* and failed
     plaintext |-> NilData,     \* what it returned
     refunds |-> <<>>,          \* one entry per refundGas run
     paid |-> 0]                \* credited to the coinbase

\* one run of refundGas from c to d
RefundEntry(c, d) ==
    [gasBefore |-> c.gas, added |-> d.gas - c.gas, usedBefore |-> gasUsed(c),
     counter |-> c.refund,
     toSender |-> d.balance[Sender] - c.balance[Sender], toPool |-> d.gp - c.gp]

Return(usedGas, failed, err) ==
    /\ result' = [returned |-> TRUE, usedGas |-> usedGas, failed |-> failed, err |-> err]
    /\ pc' = "done"

----------------------------------------------------------------------------
\* Decisions TransitionDb takes inline.

\* isPrivate: msg.(PrivateMessage) ok && isQuorum && msg.IsPrivate()
isPrivateMessage(m, cfg) == m.private /\ cfg.isQuorum /\ m.isPrivate

\* the public nonce bumped for calls only
bumpsOnlyCalls(receiveFailed, contractCreation) == ~contractCreation

\* if err != nil || !contractCreation { publicState.SetNonce(..., nonce+1) }
bumpsPublicNonce(receiveFailed, contractCreation) == receiveFailed \/ ~contractCreation

\* the intrinsic gas computed over the local data
intrinsicGasOfPlaintext(m, d, cfg) ==
    IntrinsicGas(d.bytes, ~m.to, cfg.homestead, cfg.istanbul)

\* IntrinsicGas(st.data, contractCreation, homestead, istanbul): st.data is
\* the message's data, the commitment of a private message; d is the local
\* data, the retrieved plaintext of a private message
intrinsicGasOf(m, d, cfg) == IntrinsicGas(m.data, ~m.to, cfg.homestead, cfg.istanbul)

\* the nonce of every call bumped before the Executor
bumpsCallNonce(contractCreation, private) == ~contractCreation

\* in the call branch: if !isPrivate { publicState.SetNonce(..., nonce+1) }
bumpsNonceAtDispatch(contractCreation, private) == ~contractCreation /\ ~private

\* every vm error returned as the transition's error
returnsAnyVMError(vmerr) == vmerr # ErrNil

\* if vmerr == vm.ErrInsufficientBalance { return nil, 0, false, vmerr }
returnsVMError(vmerr) == vmerr = ErrInsufficientBalance

\* the gas used reported for private messages too
reportedGasAlways(private, c) == gasUsed(c)

\* the usedGas of the final return
reportedGas(private, c) == IF private THEN 0 ELSE gasUsed(c)

----------------------------------------------------------------------------
\* TransitionDb, step by step.

\* NewStateTransition(evm, msg, gp)
NewStateTransition(M, maxTx) ==
    /\ pc \in {"idle", "done"}
    /\ block.txCount < maxTx
    /\ \E m \in M : msg' = m
    /\ st' = [gas |-> 0, initialGas |-> 0]
    /\ pc' = "preCheck"
    /\ isPrivate' = FALSE
    /\ data' = NilData
    /\ pmh' = newPMH
    /\ exec' = [leftoverGas |-> 0, vmerr |-> ErrNil]
    /\ result' = NoResult
    /\ pre' = [gp |-> gp, balance |-> balance, nonce |-> nonce, refund |-> refund]
    /\ obs' = NewObs
    /\ block' = [block EXCEPT !.txCount = @ + 1]
    /\ UNCHANGED <<chain, gp, balance, nonce, refund>>

\* if err = st.preCheck(); err != nil { return }
PreCheckStep ==
    /\ pc = "preCheck"
    /\ LET r == preCheck(Cur, msg)
       IN  /\ Install(r.c)
           /\ obs' = [obs EXCEPT !.preCheckErr = r.err]
           /\ block' = [block EXCEPT !.subSum = @ + ((gp - r.c.gp) % Word)]
           /\ IF r.err # ErrNil
              THEN Return(0, FALSE, r.err)
              ELSE pc' = "receive" /\ UNCHANGED result
    /\ UNCHANGED <<chain, msg, isPrivate, data, pmh, exec, pre>>

\* the private branch: snapshot, Receive, public nonce, prepare
ReceiveStep ==
    /\ pc = "receive"
    /\ IF isPrivateMessage(msg, chain)
       THEN \E rcv \in ReceiveOutcomes :
              LET contractCreation == ~msg.to
                  bump == bumpsPublicNonce(rcv.err, contractCreation)
                  c == IF bump THEN SetNonce(Cur, Cur.nonce + 1) ELSE Cur
                  h == [snapshot |-> StateOf(Cur), hasPrivatePayload |-> rcv.data.present]
              IN  /\ isPrivate' = TRUE
                  /\ Install(c)
                  /\ obs' = [obs EXCEPT !.received = TRUE, !.receiveErr = rcv.err,
                                        !.plaintext = rcv.data,
                                        !.nonceIncs = @ + (IF bump THEN 1 ELSE 0)]
                  /\ IF rcv.err
                     THEN /\ pmh' = [h EXCEPT !.hasPrivatePayload = FALSE]
                          /\ data' = rcv.data
                          /\ Return(0, FALSE, ErrNil)
                     ELSE /\ pmh' = h
                          /\ data' = rcv.data
                          /\ \E p \in prepare(h, chain) :
                               IF ~p.ok
                               THEN Return(0, TRUE, p.err)
                               ELSE pc' = "intrinsic" /\ UNCHANGED result
       ELSE /\ data' = Slice(msg.data)
            /\ pc' = "intrinsic"
            /\ UNCHANGED <<gp, balance, nonce, refund, st, isPrivate, pmh, obs, result>>
    /\ UNCHANGED <<chain, msg, exec, pre, block>>

\* gas, err := IntrinsicGas(st.data, ...); st.useGas(gas)
\* keepLog: the private charges of the block are kept for comparison
PayIntrinsic(keepLog) ==
    /\ pc = "intrinsic"
    /\ LET contractCreation == ~msg.to
           ig == intrinsicGasOf(msg, data, chain)
           u == useGas(Cur, ig.gas)
           charged == IF ig.err = ErrNil /\ u.err = ErrNil THEN gasUsed(u.c) - gasUsed(Cur)
                      ELSE -1
       IN  /\ block' = [block EXCEPT !.log = IF isPrivate /\ keepLog
                            THEN @ \cup {[commitment |-> msg.data, creation |-> contractCreation,
                                          plaintext |-> data, intrinsic |-> ig,
                                          charged |-> charged]}
                            ELSE @]
           /\ IF ig.err # ErrNil
              THEN /\ Return(0, FALSE, ig.err)
                   /\ UNCHANGED <<gp, balance, nonce, refund, st, obs>>
              ELSE IF u.err # ErrNil
              THEN /\ Return(0, FALSE, u.err)
                   /\ UNCHANGED <<gp, balance, nonce, refund, st, obs>>
              ELSE /\ Install(u.c)
                   /\ obs' = [obs EXCEPT !.intrinsic = charged]
                   /\ pc' = "dispatch"
                   /\ UNCHANGED result
    /\ UNCHANGED <<chain, msg, isPrivate, data, pmh, exec, pre>>

PayIntrinsicStep == PayIntrinsic(FALSE)

\* evm.Create or evm.Call, the public nonce of a call, the private
\* empty-data short-circuit, and the insufficient-balance return
DispatchStep ==
    /\ pc = "dispatch"
    /\ LET contractCreation == ~msg.to
           bump == bumpsNonceAtDispatch(contractCreation, isPrivate)
           c == IF bump THEN SetNonce(Cur, Cur.nonce + 1) ELSE Cur
       IN  IF ~contractCreation /\ Len(data.bytes) = 0 /\ isPrivate
           THEN LET d == refundGas(c, msg)
                    e == payCoinbase(d, msg)
                IN  /\ Install(e)
                    /\ obs' = [obs EXCEPT !.refunds = Append(@, RefundEntry(c, d)),
                                          !.paid = @ + (e.balance[Coinbase] - d.balance[Coinbase]),
                                          !.nonceIncs = @ + (IF bump THEN 1 ELSE 0)]
                    /\ block' = [block EXCEPT !.addSum = @ + (d.gp - c.gp)]
                    /\ Return(0, FALSE, ErrNil)
                    /\ UNCHANGED exec
           ELSE \E out \in Execute(c, contractCreation, c.gas, msg.value) :
                    /\ Install(out.c)
                    /\ exec' = [leftoverGas |-> out.leftoverGas, vmerr |-> out.vmerr]
                    /\ obs' = [obs EXCEPT !.execCalls = @ + 1,
                                          !.execNonce = c.nonce,
                                          !.nonceIncs = @ + (IF bump THEN 1 ELSE 0)]
                    /\ UNCHANGED block
                    /\ IF returnsVMError(out.vmerr)
                       THEN Return(0, FALSE, out.vmerr)
                       ELSE pc' = "verify" /\ UNCHANGED result
    /\ UNCHANGED <<chain, msg, isPrivate, data, pmh, pre>>

\* if pmh.mustVerify() { exitEarly, err = pmh.verify(vmerr); ... }
VerifyStep ==
    /\ pc = "verify"
    /\ IF mustVerify(pmh, chain)
       THEN \E v \in verify(pmh, Cur) :
                /\ Install(v.c)
                /\ obs' = [obs EXCEPT !.revertCalls = @ + v.reverts]
                /\ IF v.exitEarly
                   THEN Return(0, TRUE, v.err)
                   ELSE pc' = "settle" /\ UNCHANGED result
       ELSE /\ pc' = "settle"
            /\ UNCHANGED <<gp, balance, nonce, refund, st, obs, result>>
    /\ UNCHANGED <<chain, msg, isPrivate, data, pmh, exec, pre, block>>

\* leftover gas, refundGas, the coinbase payment and the final return
SettleStep ==
    /\ pc = "settle"
    /\ LET c == IF ~isPrivate THEN [Cur EXCEPT !.gas = exec.leftoverGas] ELSE Cur
           d == refundGas(c, msg)
           e == payCoinbase(d, msg)
       IN  /\ Install(e)
           /\ obs' = [obs EXCEPT !.refunds = Append(@, RefundEntry(c, d)),
                                 !.paid = @ + (e.balance[Coinbase] - d.balance[Coinbase])]
           /\ block' = [block EXCEPT !.addSum = @ + (d.gp - c.gp)]
           /\ Return(reportedGas(isPrivate, e), exec.vmerr # ErrNil, ErrNil)
    /\ UNCHANGED <<chain, msg, isPrivate, data, pmh, exec, pre>>

----------------------------------------------------------------------------
\* Specifications.

NewBlock(capacity) ==
    [capacity |-> capacity, txCount |-> 0, subSum |-> 0, addSum |-> 0, log |-> {}]

InitWith(configs, pools, balances, nonces, refunds) ==
    /\ chain \in configs
    /\ gp \in pools
    /\ \E b \in balances : balance = [a \in Addresses |-> IF a = Sender THEN b ELSE 0]
    /\ nonce \in nonces
    /\ refund \in refunds
    /\ msg = NoMessage
    /\ st = [gas |-> 0, initialGas |-> 0]
    /\ pc = "idle"
    /\ isPrivate = FALSE
    /\ data = NilData
    /\ pmh = newPMH
    /\ exec = [leftoverGas |-> 0, vmerr |-> ErrNil]
    /\ result = NoResult
    /\ pre = [gp |-> gp, balance |-> balance, nonce |-> nonce, refund |-> refund]
    /\ obs = NewObs
    /\ block = NewBlock(gp)

\* one transition of any message from any world state
Init == InitWith(ChainConfigs, GasPoolAmounts, SenderBalances, Nonces, RefundCounters)

ApplyMessage == NewStateTransition(Messages, 1)

Next ==
    \/ ApplyMessage
    \/ PreCheckStep
    \/ ReceiveStep
    \/ PayIntrinsicStep
    \/ DispatchStep
    \/ VerifyStep
    \/ SettleStep

Spec == Init /\ [][Next]_vars

\* a block: up to MaxTx transitions one after another against one GasPool
\* and one world state, each starting when the one before has returned
\* the pool has room for two purchases, and for a third only after refunds
BlockGasPool == {40000}
BlockSenderBalances == {200000}
BlockGasLimits == {21000, 30000}
BlockMessages ==
    { m \in MessagesOf(BlockGasLimits, {1}, {0}, {0}) :
        /\ ~m.checkNonce
        /\ m.private = m.isPrivate }

InitBlock == InitWith(ChainConfigs, BlockGasPool, BlockSenderBalances, {0}, {0})

ApplyNextMessage == NewStateTransition(BlockMessages, MaxTx)

NextBlock ==
    \/ ApplyNextMessage
    \/ PreCheckStep
    \/ ReceiveStep
    \/ PayIntrinsicStep
    \/ DispatchStep
    \/ VerifyStep
    \/ SettleStep

SpecBlock == InitBlock /\ [][NextBlock]_vars

\* a pair of private transitions of one commitment and one creation flag,
\* one after the other on one chain, their intrinsic charges kept
PairMessages ==
    { m \in BlockMessages :
        /\ m.private
        /\ \A a \in block.log : a.commitment = m.data /\ a.creation = ~m.to }

\* on a Quorum chain, before and after the forks
PairChainConfigs == {c \in ChainConfigs : c.isQuorum}

InitPair == InitWith(PairChainConfigs, BlockGasPool, BlockSenderBalances, {0}, {0})

ApplyPrivateMessage == NewStateTransition(PairMessages, 2)

PayIntrinsicStepLogged == PayIntrinsic(TRUE)

NextPair ==
    \/ ApplyPrivateMessage
    \/ PreCheckStep
    \/ ReceiveStep
    \/ PayIntrinsicStepLogged
    \/ DispatchStep
    \/ VerifyStep
    \/ SettleStep

SpecPair == InitPair /\ [][NextPair]_vars

\* buyGas followed directly by refundGas on a fresh StateTransition
RoundTripMessages ==
    { m \in Messages :
        /\ m.value = 0 /\ m.data = <<>> /\ m.nonce = 0 /\ ~m.checkNonce
        /\ m.to /\ ~m.private }

InitRoundTrip == Init

RoundTripStart ==
    /\ pc = "idle"
    /\ \E m \in RoundTripMessages : msg' = m
    /\ pc' = "buyGas"
    /\ block' = [block EXCEPT !.txCount = @ + 1]
    /\ UNCHANGED <<chain, gp, balance, nonce, refund, st, isPrivate, data, pmh, exec,
                   result, pre, obs>>

RoundTripBuyGas ==
    /\ pc = "buyGas"
    /\ LET r == buyGas(Cur, msg)
       IN  /\ Install(r.c)
           /\ obs' = [obs EXCEPT !.preCheckErr = r.err]
           /\ block' = [block EXCEPT !.subSum = @ + ((gp - r.c.gp) % Word)]
           /\ IF r.err # ErrNil
              THEN Return(0, FALSE, r.err)
              ELSE pc' = "refundGas" /\ UNCHANGED result
    /\ UNCHANGED <<chain, msg, isPrivate, data, pmh, exec, pre>>

RoundTripRefundGas ==
    /\ pc = "refundGas"
    /\ LET c == Cur
           d == refundGas(c, msg)
       IN  /\ Install(d)
           /\ obs' = [obs EXCEPT !.refunds = Append(@, RefundEntry(c, d))]
           /\ block' = [block EXCEPT !.addSum = @ + (d.gp - c.gp)]
           /\ pc' = "refunded"
    /\ UNCHANGED <<chain, msg, isPrivate, data, pmh, exec, result, pre>>

NextRoundTrip ==
    \/ RoundTripStart
    \/ RoundTripBuyGas
    \/ RoundTripRefundGas

SpecRoundTrip == InitRoundTrip /\ [][NextRoundTrip]_vars

\* IntrinsicGas alone, applied to data of any length. The data is held by
\* what the loop of IntrinsicGas finds in it, the number of its non-zero
\* bytes and its length: the data of the messages above, and data long
\* enough for the sums to come within a few bytes of MaxUint64 and beyond.
CountsOf(bytes) == [nonZero |-> NonZeroBytes(bytes), length |-> Len(bytes)]

LongDataCounts(base, nonZeroGas) ==
    LET most == (MaxUint64 - base) \div nonZeroGas
        zerosWith(n) ==
            IF n > most THEN {0, 1, 2}
            ELSE LET left == (MaxUint64 - base - n * nonZeroGas) \div TxDataZeroGas
                 IN  {0, 1, 2} \cup {z \in {left - 1, left, left + 1} : z >= 0}
    IN  UNION {{[nonZero |-> n, length |-> n + z] : z \in zerosWith(n)} :
                  n \in {0, 1, 2, most - 1, most, most + 1}}

InitIntrinsicGas ==
    /\ chain \in [isQuorum : {FALSE}, homestead : BOOLEAN, istanbul : BOOLEAN,
                  privacyEnhancements : {FALSE}]
    /\ \E to \in BOOLEAN : msg = [NoMessage EXCEPT !.to = to]
    /\ data \in {CountsOf(b) : b \in DataValues}
                \cup LongDataCounts(IF ~msg.to /\ chain.homestead
                                    THEN TxGasContractCreation ELSE TxGas,
                                    IF chain.istanbul THEN TxDataNonZeroGasEIP2028
                                    ELSE TxDataNonZeroGasFrontier)
    /\ gp = 0
    /\ balance = [a \in Addresses |-> 0]
    /\ nonce = 0
    /\ refund = 0
    /\ st = [gas |-> 0, initialGas |-> 0]
    /\ pc = "IntrinsicGas"
    /\ isPrivate = FALSE
    /\ pmh = newPMH
    /\ exec = [leftoverGas |-> 0, vmerr |-> ErrNil]
    /\ result = [returned |-> FALSE, gas |-> 0, err |-> ErrNil]
    /\ pre = [gp |-> gp, balance |-> balance, nonce |-> nonce, refund |-> refund]
    /\ obs = NewObs
    /\ block = NewBlock(gp)

\* gas, err := IntrinsicGas(data, contractCreation, homestead, istanbul)
IntrinsicGasCall ==
    /\ pc = "IntrinsicGas"
    /\ LET r == IntrinsicGasOfCounts(data.nonZero, data.length, ~msg.to, chain.homestead,
                                     chain.istanbul)
       IN  result' = [returned |-> TRUE, gas |-> r.gas, err |-> r.err]
    /\ pc' = "returned"
    /\ UNCHANGED <<chain, gp, balance, nonce, refund, msg, st, isPrivate, data, pmh, exec,
                   pre, obs, block>>

NextIntrinsicGas == IntrinsicGasCall

SpecIntrinsicGas == InitIntrinsicGas /\ [][NextIntrinsicGas]_vars

----------------------------------------------------------------------------
\* Properties.

PreCheckDone == pc \notin {"idle", "preCheck"}
Bought == PreCheckDone /\ obs.preCheckErr = ErrNil
Min(a, b) == IF a < b THEN a ELSE b

\* C1: once the gas purchase has succeeded, gas never exceeds initialGas:
\* after the intrinsic charge, when gas has been replaced by the Executor's
\* leftover gas, and after refundGas has added the refund; so gasUsed() is
\* initialGas - gas without underflow, and never negative.
GasNeverAboveInitialGas ==
    Bought =>
        /\ st.gas <= st.initialGas
        /\ gasUsed(Cur) = st.initialGas - st.gas
        /\ gasUsed(Cur) >= 0
        /\ \A i \in 1 .. Len(obs.refunds) :
              /\ obs.refunds[i].gasBefore <= st.initialGas
              /\ obs.refunds[i].gasBefore + obs.refunds[i].added <= st.initialGas
              /\ obs.refunds[i].usedBefore = st.initialGas - obs.refunds[i].gasBefore

\* a public transition settled with leftover gas and a refund
GasNeverAboveInitialGasWitness ==
    /\ pc = "done"
    /\ ~isPrivate
    /\ exec.leftoverGas > 0
    /\ Len(obs.refunds) = 1
    /\ obs.refunds[1].added > 0

\* C2, as stated: the sum of the amounts buyGas subtracted from the pool
\* never exceeds the pool's initial capacity.
SubSumWithinCapacity == block.subSum <= block.capacity

\* C2, amended: the amounts buyGas subtracted from the pool minus the
\* amounts refundGas returned to it never exceed the pool's initial
\* capacity, and the pool holds the capacity minus that difference.
NetSubWithinCapacity ==
    /\ block.subSum - block.addSum <= block.capacity
    /\ gp = block.capacity - (block.subSum - block.addSum)

\* the purchases of a block add up to more than its capacity
NetSubWithinCapacityWitness ==
    /\ pc = "done"
    /\ block.subSum > block.capacity
    /\ block.addSum > 0

\* C3: a failed pre-check (nonce too high or too low, balance below
\* gas limit x gas price, gas limit above what the pool holds) returns its
\* error and leaves the sender's balance and nonce, the proposer's balance
\* and the pool as they were; a pool failure leaves the sender undebited.
PreCheckFails ==
    \/ msg.checkNonce /\ msg.nonce # pre.nonce
    \/ pre.balance[Sender] < msg.gas * msg.gasPrice
    \/ msg.gas > pre.gp

PreCheckErrors ==
    {ErrNonceTooHigh, ErrNonceTooLow, errInsufficientBalanceForGas, ErrGasLimitReached}

PreCheckFailureChangesNothing ==
    PreCheckDone =>
        /\ PreCheckFails <=> obs.preCheckErr # ErrNil
        /\ obs.preCheckErr # ErrNil =>
              /\ pc = "done"
              /\ obs.preCheckErr \in PreCheckErrors
              /\ result.err = obs.preCheckErr
              /\ balance = pre.balance
              /\ nonce = pre.nonce
              /\ gp = pre.gp
        /\ result.err \in PreCheckErrors =>
              /\ balance = pre.balance
              /\ nonce = pre.nonce
              /\ gp = pre.gp

\* the pool refused a purchase the sender could pay for
PreCheckFailureChangesNothingWitness ==
    /\ pc = "done"
    /\ result.err = ErrGasLimitReached
    /\ pre.balance[Sender] >= msg.gas * msg.gasPrice
    /\ msg.gas * msg.gasPrice > 0

\* C4: each run of refundGas, in the normal settlement and in the private
\* empty-data short-circuit, adds to gas the smaller of half the gas used
\* just before it and the state's refund counter.
RefundIsSmallerOfHalfAndCounter ==
    \A i \in 1 .. Len(obs.refunds) :
        LET r == obs.refunds[i]
        IN  /\ r.added <= r.usedBefore \div 2
            /\ r.added <= r.counter
            /\ r.added = Min(r.usedBefore \div 2, r.counter)

\* the short-circuit refunded half the gas used, less than the counter
RefundIsSmallerOfHalfAndCounterWitness ==
    /\ pc = "done"
    /\ isPrivate
    /\ obs.execCalls = 0
    /\ Len(obs.refunds) = 1
    /\ obs.refunds[1].added > 0
    /\ obs.refunds[1].added < obs.refunds[1].counter

\* C5: with nonce verification, preCheck returns nonce too low exactly when
\* the message nonce is below the account nonce, nonce too high exactly
\* when it is above, and buys gas only when they are equal; without it, no
\* nonce error is returned whatever the nonces.
NonceErrors == {ErrNonceTooHigh, ErrNonceTooLow}

NonceClassification ==
    PreCheckDone =>
        /\ msg.checkNonce =>
              /\ obs.preCheckErr = ErrNonceTooLow <=> msg.nonce < pre.nonce
              /\ obs.preCheckErr = ErrNonceTooHigh <=> msg.nonce > pre.nonce
              /\ obs.preCheckErr \notin NonceErrors <=> msg.nonce = pre.nonce
              /\ block.subSum > 0 => msg.nonce = pre.nonce
        /\ ~msg.checkNonce => obs.preCheckErr \notin NonceErrors
        /\ obs.preCheckErr \in NonceErrors => result.err = obs.preCheckErr

\* a message with a nonce below the account's was refused
NonceClassificationWitness ==
    /\ pc = "done"
    /\ msg.checkNonce
    /\ msg.nonce < pre.nonce
    /\ result.err = ErrNonceTooLow

\* C6: buyGas followed directly by refundGas, with no gas consumed in
\* between, restores the sender's balance and the pool, for every gas
\* limit, gas price and refund counter.
BuyThenRefundRestores ==
    pc = "refunded" =>
        /\ balance[Sender] = pre.balance[Sender]
        /\ gp = pre.gp
        /\ balance = pre.balance

\* a round trip of a positive amount of gas with a positive refund counter
BuyThenRefundRestoresWitness ==
    /\ pc = "refunded"
    /\ st.initialGas > 0
    /\ msg.gasPrice > 1
    /\ refund > 0
    /\ obs.refunds[1].toPool = msg.gas

\* C7, as stated: the public call of gas limit 21000 and gas price 1 from a
\* sender with balance 100 and nonce 0 passes the pre-check, is debited
\* 21000, is charged the intrinsic gas 21000, returns no error and reports
\* 21000 gas used.
ScenarioMessage ==
    /\ msg.gas = 21000
    /\ msg.gasPrice = 1
    /\ msg.value = 0
    /\ msg.data = <<>>
    /\ msg.to
    /\ msg.nonce = 0
    /\ pre.nonce = 0
    /\ ~isPrivateMessage(msg, chain)

ScenarioOutcome ==
    /\ obs.preCheckErr = ErrNil
    /\ pc \in {"receive", "intrinsic"} => balance[Sender] = pre.balance[Sender] - 21000
    /\ pc \in {"dispatch", "verify", "settle", "done"} => obs.intrinsic = 21000
    /\ pc = "done" =>
          /\ result.err = ErrNil
          /\ result.usedGas = 21000
          /\ balance[Sender] = pre.balance[Sender] - 21000

ScenarioBalance100 ==
    (PreCheckDone /\ ScenarioMessage /\ pre.balance[Sender] = 100) => ScenarioOutcome

\* C7, amended: the same call from a sender whose balance is at least 21000,
\* against a pool holding at least 21000, passes the pre-check, is debited
\* 21000, is charged the intrinsic gas 21000 and returns no error; it
\* reports 21000 gas used when the refund counter is 0 at the settlement.
ScenarioFundedSender ==
    (PreCheckDone /\ ScenarioMessage /\ pre.balance[Sender] >= 21000 /\ pre.gp >= 21000) =>
        /\ obs.preCheckErr = ErrNil
        /\ pc \in {"receive", "intrinsic"} => balance[Sender] = pre.balance[Sender] - 21000
        /\ pc \in {"dispatch", "verify", "settle", "done"} => obs.intrinsic = 21000
        /\ pc = "done" =>
              /\ result.err = ErrNil
              /\ Len(obs.refunds) = 1
              /\ obs.refunds[1].counter = 0 =>
                    /\ result.usedGas = 21000
                    /\ balance[Sender] = pre.balance[Sender] - 21000
                    /\ balance[Coinbase] = pre.balance[Coinbase] + 21000

\* the scenario run to its end from a balance of exactly 21000
ScenarioFundedSenderWitness ==
    /\ pc = "done"
    /\ ScenarioMessage
    /\ msg.checkNonce
    /\ pre.balance[Sender] = 21000
    /\ result.usedGas = 21000
    /\ obs.execCalls = 1

\* C8: two private transitions with the same commitment bytes and creation
\* flag, under the same fork flags, are charged the same intrinsic gas
\* whatever plaintexts were retrieved: it is the intrinsic gas of the
\* commitment.
SamePrivateIntrinsicGas ==
    \A a \in block.log :
        /\ a.intrinsic = IntrinsicGas(a.commitment, a.creation, chain.homestead, chain.istanbul)
        /\ a.charged >= 0 => a.charged = a.intrinsic.gas
        /\ \A b \in block.log :
              (a.commitment = b.commitment /\ a.creation = b.creation) =>
                  /\ a.intrinsic = b.intrinsic
                  /\ (a.charged >= 0 /\ b.charged >= 0) => a.charged = b.charged

\* two private transitions of one commitment, one with no plaintext and one
\* with a plaintext that would cost another intrinsic gas
SamePrivateIntrinsicGasWitness ==
    \E a, b \in block.log :
        /\ a.commitment = b.commitment
        /\ a.creation = b.creation
        /\ ~a.plaintext.present
        /\ b.plaintext.present
        /\ Len(b.plaintext.bytes) # Len(a.commitment)
        /\ a.charged >= 0
        /\ b.charged >= 0

\* C9: a private transition returns gas used 0 on every return path; a
\* public transition that reaches the settlement returns initialGas minus
\* the gas left after the refund.
PrivateReportsNoGas ==
    pc = "done" =>
        /\ isPrivateMessage(msg, chain) => result.usedGas = 0
        /\ (~isPrivateMessage(msg, chain) /\ Len(obs.refunds) = 1) =>
              /\ result.usedGas = st.initialGas - st.gas
              /\ st.gas = obs.refunds[1].gasBefore + obs.refunds[1].added

\* a private transition that was settled after consuming gas
PrivateReportsNoGasWitness ==
    /\ pc = "done"
    /\ isPrivateMessage(msg, chain)
    /\ obs.execCalls = 1
    /\ Len(obs.refunds) = 1
    /\ st.initialGas - st.gas > 0
    /\ result.usedGas = 0

\* C10: when the retrieval of a private payload fails, for a call and for a
\* creation, the transition bumps the sender's public nonce exactly once,
\* returns no error, failed = false and gas used 0, and never invokes the
\* Executor nor reverts to the snapshot.
RetrievalFailureIsInert ==
    (pc = "done" /\ obs.receiveErr) =>
        /\ obs.nonceIncs = 1
        /\ nonce = pre.nonce + 1
        /\ result = [returned |-> TRUE, usedGas |-> 0, failed |-> FALSE, err |-> ErrNil]
        /\ obs.execCalls = 0
        /\ obs.revertCalls = 0

\* the retrieval failed for a contract creation
RetrievalFailureIsInertWitness ==
    /\ pc = "done"
    /\ obs.receiveErr
    /\ ~msg.to
    /\ nonce = pre.nonce + 1

\* C11: when the retrieval of a private payload fails, the sender's balance,
\* the proposer's balance and the pool are after the transition what they
\* were before it, and the sender's nonce is one higher.
RetrievalFailureZeroEffect ==
    (pc = "done" /\ obs.receiveErr) =>
        /\ nonce = pre.nonce + 1
        /\ balance[Sender] = pre.balance[Sender]
        /\ balance[Coinbase] = pre.balance[Coinbase]
        /\ gp = pre.gp

\* C12: when the verification after the execution of a private message
\* asks to exit early, the transition returns failed = true and gas used 0,
\* runs no refund and pays the proposer nothing, and balances, nonce and
\* refund counter are those of the snapshot: the nonce increment and the
\* Executor's effects are undone and only the gas purchase remains.
VerifyExitedEarly ==
    /\ pc = "done"
    /\ obs.execCalls = 1
    /\ result.failed
    /\ Len(obs.refunds) = 0

ConsensusFatalErrors ==
    PreCheckErrors \cup {ErrOutOfGas, ErrInsufficientBalance}

GasPurchaseOnly ==
    \/ /\ balance = pre.balance
       /\ gp = pre.gp
    \/ /\ balance = [pre.balance EXCEPT ![Sender] = @ - msg.gas * msg.gasPrice]
       /\ gp = pre.gp - msg.gas

FatalErrorKeepsOnlyPurchase ==
    (pc = "done" /\ result.err \in ConsensusFatalErrors) =>
        /\ GasPurchaseOnly
        /\ refund = pre.refund
        /\ nonce = pre.nonce

\* C14: a private call whose retrieval succeeds ends, on a participant
\* (plaintext not empty, Executor run without insufficient balance,
\* verification passed) and on a non-participant (empty data, short-circuit)
\* started from the same state, refund counter and pool, with the same
\* sender balance, proposer balance, pool, sender nonce and gas used.
\* What a run ends with is compared with the short-circuit's outcome from
\* the state the run started in.
AccountingOf(c, usedGas) ==
    [sender |-> c.balance[Sender], coinbase |-> c.balance[Coinbase], gp |-> c.gp,
     nonce |-> c.nonce, usedGas |-> usedGas]

NonParticipantAccounting(p, m, cfg) ==
    LET c0 == [gp |-> p.gp, balance |-> p.balance, nonce |-> p.nonce, refund |-> p.refund,
               gas |-> 0, initialGas |-> 0]
        bought == preCheck(c0, m).c
        bumped == SetNonce(bought, bought.nonce + 1)
        charged == useGas(bumped, intrinsicGasOf(m, NilData, cfg).gas).c
        settled == payCoinbase(refundGas(charged, m), m)
    IN  AccountingOf(settled, 0)

PrivateCallSettled ==
    /\ pc = "done"
    /\ isPrivate
    /\ msg.to
    /\ Len(obs.refunds) = 1

ParticipantSettled == PrivateCallSettled /\ obs.execCalls = 1 /\ Len(data.bytes) > 0

NonParticipantSettled == PrivateCallSettled /\ obs.execCalls = 0 /\ Len(data.bytes) = 0

ParticipantMatchesNonParticipant ==
    (ParticipantSettled \/ NonParticipantSettled) =>
        AccountingOf(Cur, result.usedGas) = NonParticipantAccounting(pre, msg, chain)

\* the same, for the non-participant alone
NonParticipantIsShortCircuit ==
    NonParticipantSettled =>
        AccountingOf(Cur, result.usedGas) = NonParticipantAccounting(pre, msg, chain)

\* the same, for a participant whose execution moved no value and left the
\* refund counter as it found it
QuietParticipantMatchesNonParticipant ==
    (ParticipantSettled /\ msg.value = 0 /\ obs.refunds[1].counter = pre.refund) =>
        AccountingOf(Cur, result.usedGas) = NonParticipantAccounting(pre, msg, chain)

\* C15, as stated: in the short-circuit of a private call with empty
\* retrieved data the Executor is not invoked, the proposer is paid the
\* intrinsic gas charged times the gas price whatever the refund counter,
\* and the call returns no error, failed = false and gas used 0.
ShortCircuit ==
    /\ pc = "done"
    /\ isPrivate
    /\ msg.to
    /\ Len(data.bytes) = 0
    /\ obs.intrinsic >= 0

ShortCircuitReturn ==
    /\ obs.execCalls = 0
    /\ obs.revertCalls = 0
    /\ result = [returned |-> TRUE, usedGas |-> 0, failed |-> FALSE, err |-> ErrNil]

ShortCircuitPaysIntrinsic ==
    ShortCircuit =>
        /\ ShortCircuitReturn
        /\ obs.paid = obs.intrinsic * msg.gasPrice
        /\ balance[Coinbase] = pre.balance[Coinbase] + obs.intrinsic * msg.gasPrice

\* C15, amended: the proposer is paid the intrinsic gas charged minus the
\* refund (the smaller of half the intrinsic gas and the refund counter),
\* times the gas price; that is the intrinsic gas times the gas price when
\* the refund counter is 0.
ShortCircuitPaysIntrinsicLessRefund ==
    ShortCircuit =>
        /\ ShortCircuitReturn
        /\ Len(obs.refunds) = 1
        /\ obs.refunds[1].usedBefore = obs.intrinsic
        /\ obs.paid = (obs.intrinsic - Min(obs.intrinsic \div 2, pre.refund)) * msg.gasPrice
        /\ balance[Coinbase] = pre.balance[Coinbase] + obs.paid
        /\ pre.refund = 0 => obs.paid = obs.intrinsic * msg.gasPrice

\* a short-circuit that found a refund counter below half the intrinsic gas
ShortCircuitPaysIntrinsicLessRefundWitness ==
    /\ ShortCircuit
    /\ pre.refund > 0
    /\ pre.refund < obs.intrinsic \div 2
    /\ msg.gasPrice > 1
    /\ obs.paid = (obs.intrinsic - pre.refund) * msg.gasPrice

\* C16: when the Executor reports a vm error other than insufficient
\* balance for a public message, the transition returns no error and
\* failed = true and the settlement runs in full: gas becomes the Executor's
\* leftover gas, the refund is added, the remaining gas goes back to the
\* sender and to the pool, and the proposer is paid gas used x gas price.
\* When the Executor reports insufficient balance, that error is returned
\* and neither the refund nor the payment happens.
ExecutorReturned == pc = "done" /\ obs.execCalls = 1

VMErrorSettlesInFull ==
    /\ (ExecutorReturned /\ ~isPrivate /\ exec.vmerr \notin {ErrNil, ErrInsufficientBalance}) =>
          /\ result.err = ErrNil
          /\ result.failed
          /\ Len(obs.refunds) = 1
          /\ obs.refunds[1].gasBefore = exec.leftoverGas
          /\ obs.refunds[1].added = Min(obs.refunds[1].usedBefore \div 2, obs.refunds[1].counter)
          /\ st.gas = exec.leftoverGas + obs.refunds[1].added
          /\ obs.refunds[1].toSender = st.gas * msg.gasPrice
          /\ obs.refunds[1].toPool = st.gas
          /\ gp = pre.gp - msg.gas + st.gas
          /\ obs.paid = (st.initialGas - st.gas) * msg.gasPrice
          /\ balance[Coinbase] = pre.balance[Coinbase] + obs.paid
          /\ result.usedGas = st.initialGas - st.gas
    /\ (ExecutorReturned /\ exec.vmerr = ErrInsufficientBalance) =>
          /\ result = [returned |-> TRUE, usedGas |-> 0, failed |-> FALSE,
                       err |-> ErrInsufficientBalance]
          /\ Len(obs.refunds) = 0
          /\ obs.paid = 0
          /\ balance[Coinbase] = pre.balance[Coinbase]
          /\ gp = pre.gp - msg.gas

\* a public message whose execution failed after using part of its gas,
\* settled with a refund
VMErrorSettlesInFullWitness ==
    /\ ExecutorReturned
    /\ ~isPrivate
    /\ exec.vmerr = ErrExecution
    /\ result.failed
    /\ exec.leftoverGas > 0
    /\ obs.refunds[1].added > 0
    /\ obs.paid > 0

\* C17: IntrinsicGas returns base + non-zero bytes x non-zero rate + zero
\* bytes x zero rate whenever that sum is at most MaxUint64, and fails with
\* out of gas whenever it is not, never returning a wrapped sum; the base is
\* the contract-creation cost only for a creation under homestead rules,
\* the non-zero rate the cheaper one only under EIP-2028.
IntrinsicGasExact ==
    pc = "returned" =>
        LET base == IF ~msg.to /\ chain.homestead THEN TxGasContractCreation ELSE TxGas
            rate == IF chain.istanbul THEN TxDataNonZeroGasEIP2028
                    ELSE TxDataNonZeroGasFrontier
            nz == data.nonZero
            z == data.length - data.nonZero
            fits == /\ nz * rate <= MaxUint64 - base
                    /\ z * TxDataZeroGas <= MaxUint64 - base - nz * rate
        IN  /\ fits => /\ result.err = ErrNil
                       /\ result.gas = base + nz * rate + z * TxDataZeroGas
            /\ ~fits => result.err = ErrOutOfGas
            /\ result.gas \in 0 .. MaxUint64

\* a creation under homestead rules whose non-zero bytes fit and whose zero
\* bytes take the sum just above MaxUint64
IntrinsicGasExactWitness ==
    /\ pc = "returned"
    /\ ~msg.to
    /\ chain.homestead
    /\ result.err = ErrOutOfGas
    /\ data.nonZero > 0
    /\ data.nonZero * (IF chain.istanbul THEN TxDataNonZeroGasEIP2028
                       ELSE TxDataNonZeroGasFrontier) <= MaxUint64 - TxGasContractCreation
    /\ (data.length - data.nonZero) * TxDataZeroGas <= MaxUint64

\* C18: whatever transitions are applied one after another against one
\* pool, public or private, returning on any path, the pool is never
\* negative and never above its initial capacity, and none returns more
\* gas to the pool than it took from it.
PoolWithinCapacity ==
    /\ gp >= 0
    /\ gp <= block.capacity
    /\ gp <= pre.gp
    /\ block.addSum <= block.subSum
    /\ \A i \in 1 .. Len(obs.refunds) :
          /\ obs.refunds[i].toPool >= 0
          /\ obs.refunds[i].toPool <= st.initialGas
          /\ gp = pre.gp - st.initialGas + obs.refunds[i].toPool

\* the second transition of a block, settled after a refund, the first
\* having returned gas to the pool too
PoolWithinCapacityWitness ==
    /\ pc = "done"
    /\ block.txCount = 2
    /\ pre.gp < block.capacity
    /\ Len(obs.refunds) = 1
    /\ obs.refunds[1].added > 0
    /\ obs.refunds[1].toPool > 0
    /\ block.addSum > obs.refunds[1].toPool

\* C19: for every transition that reaches the gas settlement, the normal
\* one or the private short-circuit, the sender's net gas debit (gas limit
\* x gas price paid at the purchase minus what refundGas returned) equals
\* what the proposer was credited, both are (initialGas - final gas) x gas
\* price, and the pool's net decrease is initialGas - final gas.
Settled == pc = "done" /\ Len(obs.refunds) = 1

GasConserved ==
    Settled =>
        LET used == st.initialGas - st.gas
            debit == msg.gas * msg.gasPrice - obs.refunds[1].toSender
        IN  /\ debit = obs.paid
            /\ obs.paid = used * msg.gasPrice
            /\ balance[Coinbase] = pre.balance[Coinbase] + used * msg.gasPrice
            /\ pre.gp - gp = used
            /\ obs.refunds[1].toSender = st.gas * msg.gasPrice
            /\ obs.refunds[1].toPool = st.gas
            \* the sender's balance itself, when the Executor moved no value
            /\ (msg.value = 0 \/ exec.vmerr # ErrNil \/ obs.execCalls = 0) =>
                  pre.balance[Sender] - balance[Sender] = used * msg.gasPrice

\* a settlement at gas price 2 after a refund, with gas left
GasConservedWitness ==
    /\ Settled
    /\ msg.gasPrice > 1
    /\ obs.execCalls = 1
    /\ obs.refunds[1].added > 0
    /\ st.gas > 0
    /\ st.gas < st.initialGas
    /\ obs.paid > 0

\* C20: within one transition the engine itself increments the sender's
\* public nonce at most once: for a public call exactly once, after the
\* intrinsic gas charge and before the Executor is called; for a private
\* call exactly once, right after the retrieval, and not again at the
\* dispatch; for a creation only when it is private and its retrieval
\* failed.
Dispatched == pc \in {"verify", "settle", "done"} /\ obs.intrinsic >= 0

EngineBumpsNonceOnce ==
    /\ obs.nonceIncs \in {0, 1}
    /\ (PreCheckDone /\ ~isPrivateMessage(msg, chain) /\ msg.to) =>
          /\ obs.nonceIncs = 1 <=> Dispatched
          /\ pc = "dispatch" => obs.nonceIncs = 0 /\ nonce = pre.nonce
          /\ obs.execCalls = 1 => obs.execNonce = pre.nonce + 1
          /\ Dispatched => obs.execCalls = 1
    /\ (PreCheckDone /\ isPrivateMessage(msg, chain) /\ msg.to) =>
          /\ obs.nonceIncs = 1 <=> obs.received
          /\ obs.received <=> (pc # "receive" /\ obs.preCheckErr = ErrNil)
          /\ pc \in {"intrinsic", "dispatch"} => nonce = pre.nonce + 1
          /\ obs.execCalls = 1 => obs.execNonce = pre.nonce + 1
    /\ (PreCheckDone /\ ~msg.to) =>
          /\ obs.nonceIncs = 1 <=> (isPrivateMessage(msg, chain) /\ obs.receiveErr)
          /\ obs.execCalls = 1 => obs.execNonce = pre.nonce

\* a private call that ran the Executor and was settled: bumped once, after
\* the retrieval
EngineBumpsNonceOnceWitness ==
    /\ pc = "done"
    /\ isPrivateMessage(msg, chain)
    /\ msg.to
    /\ obs.execCalls = 1
    /\ Len(obs.refunds) = 1
    /\ obs.nonceIncs = 1
    /\ nonce = pre.nonce + 1

====
